---- MODULE Spec2Model ----
(***************************************************************************)
(* The spatial merge engine of backend/mage/transformers/                  *)
(* wetlands_merge_grid.py: merge_grid, create_spatial_chunks and           *)
(* process_chunk, as a state machine.                                      *)
(*                                                                         *)
(* Geometry.  A polygon is a non-empty set of unit squares ("cells") of an *)
(* integer lattice; the union of polygons is the union of their cell sets. *)
(* The boundary of such a polygon is a union of lattice edges, so two      *)
(* boundaries share a point exactly when they share a lattice vertex: that *)
(* is the Queen contiguity libpysal computes (shared vertices).            *)
(* Wall-clock and memory metrics are left out: nothing reads them.         *)
(* The stitch pass is the one place where the code provides for the merge  *)
(* raising (try/except); there the model lets it raise or not.             *)
(*                                                                         *)
(* Spec is merge_grid on input files whose features all have a geometry.   *)
(* SpecIO adds an output step that raises, SpecDefects starts from input   *)
(* files with a feature whose geometry is null or empty, and SpecValidate  *)
(* is one call of transformers/geo_validate_geometries.py.  SpecWide is    *)
(* merge_grid on a one-row lattice with more partition counts, SpecOrder   *)
(* merge_grid with the default partition count, SpecChunks merge_grid with *)
(* a partition count given, and SpecWriter the output                      *)
(* step by itself on stored frames that may hold rows without a geometry.  *)
(***************************************************************************)
EXTENDS Integers, Sequences, FiniteSets, TLC

\* ---------------------------------------------------------------- bounds
GridW == 3
MaxFeatures == 3
MaxChunks == 2
\* the width of a one-row lattice and the partition counts tried on it
WideW == 5
MaxWideChunks == 5
\* the number of rows of a frame handed to the output step by itself
MaxStored == 2

\* ------------------------------------------------------ program constants
ExpectedEpsg == "EPSG:4326"
DefaultNumChunks == 4
Codes == <<12, 60>>

\* gridcodes that occur in the input data: the two processed ones and another
GridCodes == {12, 60, 7}
NoCrs == "None"
CrsValues == {NoCrs, "EPSG:4326", "EPSG:25832"}
\* data_item.get("input_path") when the key is absent
NoPath == "None"
\* data_item.get("num_chunks"): <<>> when the key is absent, <<k>> when it is k
Absent == <<>>

\* the lattice is about twice as wide as it is high
GridH == (GridW + 1) \div 2
Cells == (0 .. GridW - 1) \X (0 .. GridH - 1)

Min(S) == CHOOSE x \in S : \A y \in S : x <= y
Max(S) == CHOOSE x \in S : \A y \in S : x >= y

RECURSIVE SumCounts(_)
SumCounts(rows) ==
    IF rows = <<>> THEN 0 ELSE Head(rows).merged_count + SumCounts(Tail(rows))

RECURSIVE Flatten(_)
Flatten(dfs) == IF dfs = <<>> THEN <<>> ELSE Head(dfs) \o Flatten(Tail(dfs))

\* ------------------------------------------------------------- geometry
Corners(c) == {<<c[1] + dx, c[2] + dy>> : dx \in 0 .. 1, dy \in 0 .. 1}
CellsAt(p) == {<<p[1] - dx, p[2] - dy>> : dx \in 0 .. 1, dy \in 0 .. 1}

\* the lattice vertices on the boundary of polygon g
BoundaryVertices(g) ==
    {p \in UNION {Corners(c) : c \in g} : ~(CellsAt(p) \subseteq g)}

\* gdf.total_bounds
TotalBounds(rows) ==
    LET cs == UNION {rows[n].geometry : n \in DOMAIN rows}
    IN  [minx |-> Min({c[1] : c \in cs}), miny |-> Min({c[2] : c \in cs}),
         maxx |-> Max({c[1] : c \in cs}) + 1, maxy |-> Max({c[2] : c \in cs}) + 1]

\* a side that rounds the square root down
ChunksPerSideFloor(k) == CHOOSE s \in 0 .. k : s * s <= k /\ (s + 1) * (s + 1) > k

\* int(np.ceil(np.sqrt(num_chunks)))
ChunksPerSide(k) == CHOOSE s \in 0 .. k : s * s >= k /\ (s = 0 \/ (s - 1) * (s - 1) < k)

\* a membership test that asks for the geometry to lie within the chunk box
IntersectsChunkWithin(g, bnd, s, a, b) ==
    LET w == bnd.maxx - bnd.minx
        h == bnd.maxy - bnd.miny
    IN  \A c \in g :
            /\ s * bnd.minx + a * w <= s * c[1]
            /\ s * c[1] + s <= s * bnd.minx + (a + 1) * w
            /\ s * bnd.miny + b * h <= s * c[2]
            /\ s * c[2] + s <= s * bnd.miny + (b + 1) * h

\* gdf.intersects(chunk_box) for the chunk at grid position (a, b); coordinates
\* are scaled by s so that the chunk bounds minx + a * width are integers
IntersectsChunk(g, bnd, s, a, b) ==
    LET w == bnd.maxx - bnd.minx
        h == bnd.maxy - bnd.miny
    IN  \E c \in g :
            /\ s * c[1] <= s * bnd.minx + (a + 1) * w
            /\ s * bnd.minx + a * w <= s * c[1] + s
            /\ s * c[2] <= s * bnd.miny + (b + 1) * h
            /\ s * bnd.miny + b * h <= s * c[2] + s

ChunkMembers(rows, bnd, s, a, b) ==
    SelectSeq(rows, LAMBDA r : IntersectsChunk(r.geometry, bnd, s, a, b))

\* a partitioner that returns the boxes without a feature as well
CreateChunksKeepsEmpty(rows, k) ==
    LET s == ChunksPerSide(k)
    IN  [n \in 1 .. s * s |->
            IF \A m \in DOMAIN rows : rows[m].geometry = {} THEN <<>>
            ELSE ChunkMembers(rows, TotalBounds(rows), s, (n - 1) \div s, (n - 1) % s)]

\* without a row that has a geometry the total bounds are NaN and no row
\* intersects a chunk box, so that no chunk is returned
create_spatial_chunks(rows, k) ==
    LET s == ChunksPerSide(k)
    IN  IF \A n \in DOMAIN rows : rows[n].geometry = {} THEN <<>>
        ELSE LET bnd == TotalBounds(rows)
                 grid == [n \in 1 .. s * s |->
                            ChunkMembers(rows, bnd, s, (n - 1) \div s, (n - 1) % s)]
             IN  SelectSeq(grid, LAMBDA ch : Len(ch) > 0)

\* --------------------------------------------------- contiguity and merge
\* a contiguity that leaves rows with equal geometries unconnected
QueenDistinctOnly(rows) ==
    LET bv == [n \in DOMAIN rows |-> BoundaryVertices(rows[n].geometry)]
    IN  [n \in DOMAIN rows |->
            {m \in DOMAIN rows : rows[m].geometry # rows[n].geometry
                                  /\ bv[n] \cap bv[m] # {}}]

\* libpysal.weights.Queen.from_dataframe: the neighbours of every row
Queen(rows) ==
    LET bv == [n \in DOMAIN rows |-> BoundaryVertices(rows[n].geometry)]
    IN  [n \in DOMAIN rows |-> {m \in DOMAIN rows : m # n /\ bv[n] \cap bv[m] # {}}]

\* the rows themselves and their neighbours, without the neighbours' neighbours
ReachNeighbours(W, S) == S \cup UNION {W[n] : n \in S}

\* the rows connected to those of S
RECURSIVE Reach(_, _)
Reach(W, S) ==
    LET T == S \cup UNION {W[n] : n \in S}
    IN  IF T = S THEN S ELSE Reach(W, T)

\* components that leave out the rows without a neighbour
ComponentsWithoutIslands(W) ==
    LET comp == [n \in DOMAIN W |-> Reach(W, {n})]
        firsts == {n \in DOMAIN W : n = Min(comp[n]) /\ Cardinality(comp[n]) > 1}
        ord == [n \in DOMAIN W |-> Cardinality({m \in firsts : m <= n})]
    IN  [l \in 1 .. Cardinality(firsts) |->
            comp[CHOOSE n \in firsts : ord[n] = l]]

\* W.component_labels: the components in order of their first row
Components(W) ==
    LET comp == [n \in DOMAIN W |-> Reach(W, {n})]
        firsts == {n \in DOMAIN W : n = Min(comp[n])}
        ord == [n \in DOMAIN W |-> Cardinality({m \in firsts : m <= n})]
    IN  [l \in 1 .. Cardinality(firsts) |->
            comp[CHOOSE n \in firsts : ord[n] = l]]

\* a dissolve that gives the bounding box of the members
DissolveEnvelope(rows, comp) ==
    LET g == UNION {rows[n].geometry : n \in comp}
    IN  {c \in Cells : /\ \E d \in g : d[1] <= c[1]
                       /\ \E d \in g : d[1] >= c[1]
                       /\ \E d \in g : d[2] <= c[2]
                       /\ \E d \in g : d[2] >= c[2]}

\* dissolve(by='component_id'): the union of the members' geometries
DissolveGeometry(rows, comp) == UNION {rows[n].geometry : n \in comp}

\* aggfunc 'temp_id': 'count'
CountMembers(rows, comp) == Cardinality(comp)

\* an aggregation that takes the value of the first member row
SumMembersFirst(rows, comp) == rows[Min(comp)].merged_count

\* an aggregation that counts the member rows
SumMembersAsCount(rows, comp) == Cardinality(comp)

\* aggfunc 'merged_count': 'sum'
SumMembers(rows, comp) ==
    SumCounts([l \in 1 .. Cardinality(comp) |->
                 rows[CHOOSE n \in comp : Cardinality({m \in comp : m <= n}) = l]])

\* a per-partition pass without the gridcode filter
ProcessChunkAllCodes(chunk, code) ==
    LET comps == Components(Queen(chunk))
    IN  IF Len(chunk) = 0 THEN <<>>
        ELSE [l \in DOMAIN comps |->
                [component_id |-> l - 1,
                 gridcode |-> chunk[Min(comps[l])].gridcode,
                 merged_count |-> CountMembers(chunk, comps[l]),
                 geometry |-> DissolveGeometry(chunk, comps[l])]]

\* process_chunk: the rows of the gridcode, their Queen components, and one
\* dissolved row per component
process_chunk(chunk, code) ==
    LET filtered == SelectSeq(chunk, LAMBDA r : r.gridcode = code)
        comps == Components(Queen(filtered))
    IN  IF Len(filtered) = 0 THEN <<>>
        ELSE [l \in DOMAIN comps |->
                [component_id |-> l - 1,
                 gridcode |-> filtered[Min(comps[l])].gridcode,
                 merged_count |-> CountMembers(filtered, comps[l]),
                 geometry |-> DissolveGeometry(filtered, comps[l])]]

\* a stitch pass that leaves the concatenated chunk results as they are
FinalMergeKeepsRows(merged_df) == merged_df

\* a stitch pass that emits the components from the highest id to the lowest
FinalMergeDescending(merged_df) ==
    LET comps == Components(Queen(merged_df))
        last == Len(comps)
    IN  [l \in DOMAIN comps |->
            [component_id |-> last - l,
             gridcode |-> merged_df[Min(comps[last - l + 1])].gridcode,
             merged_count |-> SumMembers(merged_df, comps[last - l + 1]),
             geometry |-> DissolveGeometry(merged_df, comps[last - l + 1])]]

\* the try block of the stitch pass
FinalMerge(merged_df) ==
    LET comps == Components(Queen(merged_df))
    IN  [l \in DOMAIN comps |->
            [component_id |-> l - 1,
             gridcode |-> merged_df[Min(comps[l])].gridcode,
             merged_count |-> SumMembers(merged_df, comps[l]),
             geometry |-> DissolveGeometry(merged_df, comps[l])]]

\* a fallback that stores nothing
StitchFallbackDrops(merged_df) == <<>>

\* the except block of the stitch pass
StitchFallback(merged_df) == merged_df

\* ------------------------------------------------------------------ state
VARIABLES
    validator,       \* the state of a run of geo_validate_geometries
    input_path,      \* data_item.get("input_path")
    input_file,      \* the rows of the GeoParquet file data_item["input_path"] names
    num_chunks_arg,  \* data_item.get("num_chunks"), or Absent
    pc,              \* position in merge_grid
    gdf,             \* the frame read from the input file
    crs,             \* gdf.crs: at first the CRS tag of the input file
    num_chunks,
    chunks,
    merge_stats,
    code_i,          \* position of the loop over the gridcodes 12 and 60
    chunk_results,
    merged_df,       \* per gridcode, the concatenated chunk results
    all_merged_dfs,
    output_file,     \* the temporary file of mkstemp: whether it exists, and its rows
    result,          \* the returned dictionary
    error,           \* the exception that ended the run, if any
    degraded         \* history: the gridcodes whose stitch pass raised

vars == <<validator, input_path, input_file, num_chunks_arg, pc, gdf, crs, num_chunks, chunks, merge_stats,
          code_i, chunk_results, merged_df, all_merged_dfs, output_file,
          result, error, degraded>>

NoFile == [exists |-> FALSE, rows |-> <<>>]
NoResult == [returned |-> FALSE]
NoError == "none"
CodeSet == {Codes[n] : n \in DOMAIN Codes}
InitialStats == [c \in CodeSet |-> [original_features |-> 0, merged_features |-> 0]]

\* the rows of a frame holding one unit square per occupied cell, in lattice order
CellIndex(c) == c[2] * GridW + c[1] + 1
FrameOf(f) ==
    LET D == DOMAIN f
        nth(l) == CHOOSE c \in D : Cardinality({d \in D : CellIndex(d) <= CellIndex(c)}) = l
    IN  [l \in 1 .. Cardinality(D) |-> [geometry |-> {nth(l)}, gridcode |-> f[nth(l)]]]

InputFrames ==
    UNION {{FrameOf(f) : f \in [D -> GridCodes]} :
             D \in {E \in SUBSET Cells : Cardinality(E) <= MaxFeatures}}

\* the variables of merge_grid before its first statement
InitRun ==
    /\ gdf = <<>>
    /\ num_chunks = 0
    /\ chunks = <<>>
    /\ merge_stats = InitialStats
    /\ code_i = 1
    /\ chunk_results = <<>>
    /\ merged_df = [c \in CodeSet |-> <<>>]
    /\ all_merged_dfs = <<>>
    /\ output_file = NoFile
    /\ result = NoResult
    /\ error = NoError
    /\ degraded = {}

\* the state of the validator while it is not run
NotRun == [pc |-> "idle"]

Init ==
    /\ validator = NotRun
    /\ \/ /\ input_path = "input.parquet"
          /\ input_file \in InputFrames
          /\ crs \in CrsValues
       \/ /\ input_path \in {NoPath, ""}
          /\ input_file = <<>>
          /\ crs = NoCrs
    /\ num_chunks_arg \in {Absent} \cup {<<k>> : k \in 1 .. MaxChunks}
    /\ pc = "start"
    /\ InitRun

\* ---------------------------------------------------------------- actions
\* a check that lets every CRS pass
CrsCheckLenient(c) == IF c = NoCrs THEN "assign" ELSE "ok"

\* a check that rejects a frame without CRS
CrsCheckStrict(c) == IF c # ExpectedEpsg THEN "reject" ELSE "ok"

\* the check of a frame's CRS: "assign" when absent, "reject" when not EPSG:4326
CrsCheck(c) ==
    IF c = NoCrs THEN "assign" ELSE IF c # ExpectedEpsg THEN "reject" ELSE "ok"

\* a count that forgets the gridcode filter
CountAllCodes(rows, code) == Len(rows)

\* len(gdf[gdf['gridcode'] == code])
CountCode(rows, code) == Len(SelectSeq(rows, LAMBDA r : r.gridcode = code))

OriginalStats(rows) ==
    [c \in CodeSet |-> [original_features |-> CountCode(rows, c), merged_features |-> 0]]

\* a test of the input path that takes the empty string for a path
HasInputPathNotNone(p) == p # NoPath

\* "if not input_path": None and the empty string are no path
HasInputPath(p) == p \notin {NoPath, ""}

\* merge_grid up to the per-gridcode loop: the input path, the read, the CRS
\* check, the counts and the partition
ReadInput ==
    /\ pc = "start"
    /\ IF ~HasInputPath(input_path)
       THEN /\ pc' = "aborted"
            /\ error' = "ValueError"
            /\ UNCHANGED <<gdf, num_chunks, crs, chunks, merge_stats>>
       ELSE /\ gdf' = input_file
            /\ num_chunks' = IF num_chunks_arg = Absent THEN DefaultNumChunks
                              ELSE num_chunks_arg[1]
            /\ IF CrsCheck(crs) = "reject"
               THEN /\ pc' = "aborted"
                    /\ error' = "ValueError"
                    /\ UNCHANGED <<crs, chunks, merge_stats>>
               ELSE /\ pc' = "process"
                    /\ crs' = IF CrsCheck(crs) = "assign" THEN ExpectedEpsg ELSE crs
                    /\ merge_stats' = OriginalStats(gdf')
                    /\ chunks' = create_spatial_chunks(gdf', num_chunks')
                    /\ UNCHANGED error
    /\ UNCHANGED <<validator, input_path, input_file, num_chunks_arg, code_i, chunk_results, merged_df,
                   all_merged_dfs, output_file, result, degraded>>

InLoop == pc = "process" /\ code_i <= Len(Codes)

\* a loop over the gridcodes that is left after its first pass
LoopDoneEarly == code_i > 1

\* "for code in [12, 60]" has gone through every gridcode
LoopDone == code_i > Len(Codes)

Code == Codes[code_i]

\* "if merge_stats[code]['original_features'] == 0: continue"
SkipCategory ==
    /\ InLoop
    /\ merge_stats[Code].original_features = 0
    /\ code_i' = code_i + 1
    /\ UNCHANGED <<validator, input_path, input_file, num_chunks_arg, pc, gdf, crs, num_chunks, chunks,
                   merge_stats, chunk_results, merged_df, all_merged_dfs,
                   output_file, result, error, degraded>>

\* the non-empty results of process_chunk over the chunks from position n on
RECURSIVE ChunkResults(_, _, _)
ChunkResults(chs, code, n) ==
    IF n > Len(chs) THEN <<>>
    ELSE LET res == process_chunk(chs[n], code)
         IN  (IF Len(res) > 0 THEN <<res>> ELSE <<>>) \o ChunkResults(chs, code, n + 1)

\* "for i, chunk in enumerate(chunks)": every chunk of the gridcode is processed;
\* process_chunk raises when the CRS of a chunk (that of gdf) is not EPSG:4326
ProcessChunks ==
    /\ InLoop
    /\ merge_stats[Code].original_features > 0
    /\ IF CrsCheck(crs) = "reject" /\ chunks # <<>>
       THEN /\ pc' = "aborted"
            /\ error' = "ValueError"
            /\ UNCHANGED <<chunk_results, code_i>>
       ELSE /\ chunk_results' = ChunkResults(chunks, Code, 1)
            /\ pc' = IF chunk_results' = <<>> THEN "process" ELSE "stitch"
            /\ code_i' = IF chunk_results' = <<>> THEN code_i + 1 ELSE code_i
            /\ UNCHANGED error
    /\ UNCHANGED <<validator, input_path, input_file, num_chunks_arg, gdf, crs, num_chunks, chunks,
                   merge_stats, merged_df, all_merged_dfs, output_file, result,
                   degraded>>

NextCategory ==
    /\ code_i' = code_i + 1
    /\ chunk_results' = <<>>
    /\ pc' = "process"

\* the stitch pass when nothing raises
Stitch ==
    /\ pc = "stitch"
    /\ merged_df' = [merged_df EXCEPT ![Code] = Flatten(chunk_results)]
    /\ \E final_merged \in {FinalMerge(merged_df'[Code])} :
          /\ all_merged_dfs' = Append(all_merged_dfs, final_merged)
          /\ merge_stats' = [merge_stats EXCEPT ![Code].merged_features = Len(final_merged)]
    /\ NextCategory
    /\ UNCHANGED <<validator, input_path, input_file, num_chunks_arg, gdf, crs, num_chunks, chunks,
                   output_file, result, error, degraded>>

\* a failing stitch pass that also throws away what the gridcodes before it
\* had stored
StitchFailsClears ==
    /\ pc = "stitch"
    /\ LET df == Flatten(chunk_results)
       IN  /\ merged_df' = [merged_df EXCEPT ![Code] = df]
           /\ all_merged_dfs' = <<df>>
           /\ merge_stats' = [c \in CodeSet |->
                                [merge_stats[c] EXCEPT
                                    !.merged_features = IF c = Code THEN Len(df) ELSE 0]]
    /\ degraded' = degraded \cup {Code}
    /\ NextCategory
    /\ UNCHANGED <<validator, input_path, input_file, num_chunks_arg, gdf, crs, num_chunks, chunks,
                   output_file, result, error>>

\* the stitch pass when Queen.from_dataframe or dissolve raises
StitchFails ==
    /\ pc = "stitch"
    /\ LET df == Flatten(chunk_results)
           kept == StitchFallback(df)
       IN  /\ merged_df' = [merged_df EXCEPT ![Code] = df]
           /\ all_merged_dfs' = Append(all_merged_dfs, kept)
           /\ merge_stats' = [merge_stats EXCEPT ![Code].merged_features = Len(kept)]
    /\ degraded' = degraded \cup {Code}
    /\ NextCategory
    /\ UNCHANGED <<validator, input_path, input_file, num_chunks_arg, gdf, crs, num_chunks, chunks,
                   output_file, result, error>>

\* an output step that writes every row it is given
SafeRowsKeepsAll(rows) == rows

\* write_duckdb_compatible_geoparquet removes the rows without a geometry
SafeRows(rows) == SelectSeq(rows, LAMBDA r : r.geometry # {})

\* an output step that creates no file when there is nothing to write
WrittenFileSkipsEmpty(dfs) ==
    IF Flatten(dfs) = <<>> THEN [exists |-> FALSE, rows |-> <<>>]
    ELSE [exists |-> TRUE, rows |-> SafeRows(Flatten(dfs))]

\* tempfile.mkstemp and write_duckdb_compatible_geoparquet: the file exists and
\* holds the combined rows, or no rows when there is nothing to write
WrittenFile(dfs) == [exists |-> TRUE, rows |-> SafeRows(Flatten(dfs))]

WriteOutput ==
    /\ pc = "process"
    /\ LoopDone
    /\ output_file' = WrittenFile(all_merged_dfs)
    /\ pc' = "written"
    /\ UNCHANGED <<validator, input_path, input_file, num_chunks_arg, gdf, crs, num_chunks, chunks, merge_stats,
                   code_i, chunk_results, merged_df, all_merged_dfs, result,
                   error, degraded>>

\* a total that takes the last gridcode only
SumMergedLast(stats, n) == IF n = 0 THEN 0 ELSE stats[Codes[n]].merged_features

RECURSIVE SumMerged(_, _)
SumMerged(stats, n) ==
    IF n = 0 THEN 0 ELSE stats[Codes[n]].merged_features + SumMerged(stats, n - 1)

RECURSIVE SumOriginal(_, _)
SumOriginal(stats, n) ==
    IF n = 0 THEN 0 ELSE stats[Codes[n]].original_features + SumOriginal(stats, n - 1)

\* the dictionary merge_grid returns
ReturnValue(stats, nchunks) ==
    [input_path |-> "output_path",
     metadata |-> [merged_features_count |-> SumMerged(stats, Len(Codes)),
                   merge_stats |-> stats],
     performance_metrics |->
        [efficiency_metrics |-> [original_features |-> SumOriginal(stats, Len(Codes)),
                                 merged_features |-> SumMerged(stats, Len(Codes))],
         processing |-> [num_chunks |-> nchunks]]]

Return ==
    /\ pc = "written"
    /\ result' = ReturnValue(merge_stats, Len(chunks))
    /\ pc' = "done"
    /\ UNCHANGED <<validator, input_path, input_file, num_chunks_arg, gdf, crs, num_chunks, chunks, merge_stats,
                   code_i, chunk_results, merged_df, all_merged_dfs, output_file,
                   error, degraded>>

Next ==
    \/ ReadInput
    \/ SkipCategory
    \/ ProcessChunks
    \/ Stitch
    \/ StitchFails
    \/ WriteOutput
    \/ Return

Spec == Init /\ [][Next]_vars

\* ------------------------------------------------- a failing output step
\* mkstemp has created the file and write_duckdb_compatible_geoparquet raises:
\* nothing catches the exception and nothing removes the file, which holds the
\* rows written so far
WriteFails ==
    /\ pc = "process"
    /\ LoopDone
    /\ \E n \in 0 .. Len(Flatten(all_merged_dfs)) :
          output_file' = [exists |-> TRUE, rows |-> SubSeq(Flatten(all_merged_dfs), 1, n)]
    /\ pc' = "aborted"
    /\ error' = "WriteError"
    /\ UNCHANGED <<validator, input_path, input_file, num_chunks_arg, gdf, crs, num_chunks,
                   chunks, merge_stats, code_i, chunk_results, merged_df,
                   all_merged_dfs, result, degraded>>

NextIO ==
    \/ Next
    \/ WriteFails

\* merge_grid on a system where writing the output may fail
SpecIO == Init /\ [][NextIO]_vars

\* ------------------------------------------------ geo_validate_geometries
\* The validator is a function of its own: validator holds its position pc,
\* its argument data, the input file, whether the temporary output file
\* exists, the exception that ended it with the step that raised it, and the
\* returned dictionary.  An input feature is "good", or has a "null" geometry,
\* or is "small": repaired and parsed but below min_points or min_area_m2.
ValidatorPaths == {NoPath, "", "data.csv", "data.parquet"}
FeatureKinds == {"good", "null", "small"}

RECURSIVE SeqsUpTo(_, _)
SeqsUpTo(S, n) ==
    IF n = 0 THEN {<<>>}
    ELSE SeqsUpTo(S, n - 1) \cup {Append(q, x) : q \in SeqsUpTo(S, n - 1), x \in S}

ValidatorFiles ==
    [has_geometry : BOOLEAN, features : SeqsUpTo(FeatureKinds, MaxFeatures)]

\* Python's truth value of data.get(key)
Truthy(p) == p \notin {NoPath, ""}

\* data.get('input_path') or data.get('formatted_data_path')
InputPathOf(data) ==
    IF Truthy(data.input_path) THEN data.input_path ELSE data.formatted_data_path

\* input_path.endswith('.parquet')
EndsWithParquet(p) == p = "data.parquet"

\* the rows the four stages of the validation query keep
ValidFeatures(features) == SelectSeq(features, LAMBDA k : k = "good")

\* the variables of merge_grid, which a call of the validator leaves alone
mergeVars == <<input_path, input_file, num_chunks_arg, pc, gdf, crs, num_chunks, chunks,
               merge_stats, code_i, chunk_results, merged_df, all_merged_dfs,
               output_file, result, error, degraded>>

ValidatorFailed(stage, err, exists) ==
    validator' = [validator EXCEPT !.pc = "failed", !.failed_at = stage,
                                   !.error = err, !.output_exists = exists]

\* the input validation and tempfile.mkstemp
ValidatorCheckInput ==
    /\ validator.pc = "start"
    /\ IF ~Truthy(InputPathOf(validator.data))
          \/ ~EndsWithParquet(InputPathOf(validator.data))
       THEN ValidatorFailed("input", "ValueError", FALSE)
       ELSE validator' = [validator EXCEPT !.pc = "created", !.output_exists = TRUE]
    /\ UNCHANGED mergeVars

\* duckdb.connect, install_extension and load_extension, before the try block
ValidatorConnect ==
    /\ validator.pc = "created"
    /\ validator' = [validator EXCEPT !.pc = "connected"]
    /\ UNCHANGED mergeVars

\* one of them raises: the exception leaves the function as it is, and the
\* temporary file stays
ValidatorConnectFails ==
    /\ validator.pc = "created"
    /\ ValidatorFailed("connect", "DuckDBError", validator.output_exists)
    /\ UNCHANGED mergeVars

\* "2. Verify Input Data Structure": the ValueError becomes a ValueError in the
\* inner except and a RuntimeError in the outer one, which removes the file
ValidatorVerify ==
    /\ validator.pc = "connected"
    /\ IF ~validator.file.has_geometry
       THEN ValidatorFailed("verify", "RuntimeError", FALSE)
       ELSE validator' = [validator EXCEPT !.pc = "verified"]
    /\ UNCHANGED mergeVars

\* "3. Get Initial Statistics": the ValueError for a file without features is
\* caught by the outer except as well
ValidatorStats ==
    /\ validator.pc = "verified"
    /\ IF Len(validator.file.features) = 0
       THEN ValidatorFailed("stats", "RuntimeError", FALSE)
       ELSE validator' = [validator EXCEPT !.pc = "counted"]
    /\ UNCHANGED mergeVars

\* steps 4 to 7 and the return; without a valid feature AVG(num_points) is
\* NULL and float(None) raises a TypeError inside the try block
ValidatorProcess ==
    /\ validator.pc = "counted"
    /\ LET valid == ValidFeatures(validator.file.features)
       IN  IF valid = <<>>
           THEN ValidatorFailed("process", "RuntimeError", FALSE)
           ELSE validator' =
                  [validator EXCEPT
                     !.pc = "returned",
                     !.result = [validated_data_path |-> "output_path",
                                 validated_count |-> Len(valid),
                                 original_feature_count |-> Len(validator.file.features)]]
    /\ UNCHANGED mergeVars

\* a query of the try block raises
ValidatorQueryFails ==
    /\ validator.pc \in {"connected", "verified", "counted"}
    /\ ValidatorFailed("query", "RuntimeError", FALSE)
    /\ UNCHANGED mergeVars

NextValidate ==
    \/ ValidatorCheckInput
    \/ ValidatorConnect
    \/ ValidatorConnectFails
    \/ ValidatorVerify
    \/ ValidatorStats
    \/ ValidatorProcess
    \/ ValidatorQueryFails

InitValidate ==
    /\ validator \in [pc : {"start"},
                       data : [input_path : ValidatorPaths,
                               formatted_data_path : ValidatorPaths],
                       file : ValidatorFiles,
                       output_exists : {FALSE},
                       failed_at : {"nowhere"},
                       error : {NoError},
                       result : {NoResult}]
    /\ input_path = NoPath
    /\ input_file = <<>>
    /\ crs = NoCrs
    /\ num_chunks_arg = Absent
    /\ pc = "idle"
    /\ InitRun

\* one call of geo_validate_geometries
SpecValidate == InitValidate /\ [][NextValidate]_vars

\* ------------------------------------------------- a wide, sparse input
\* the input files with at most two unit squares in one row of WideW cells
WideFrames ==
    UNION {{FrameOf(f) : f \in [D -> GridCodes]} :
             D \in {E \in SUBSET ((0 .. WideW - 1) \X {0}) : Cardinality(E) <= 2}}

InitWide ==
    /\ validator = NotRun
    /\ input_path = "input.parquet"
    /\ input_file \in WideFrames
    /\ crs = ExpectedEpsg
    /\ num_chunks_arg \in {<<k>> : k \in 1 .. MaxWideChunks}
    /\ pc = "start"
    /\ InitRun

\* merge_grid on features that lie far apart, for more partition counts
SpecWide == InitWide /\ [][Next]_vars

\* --------------------------------------------- the default partition count
InitOrder ==
    /\ validator = NotRun
    /\ input_path = "input.parquet"
    /\ input_file \in InputFrames
    /\ crs = ExpectedEpsg
    /\ num_chunks_arg = Absent
    /\ pc = "start"
    /\ InitRun

\* merge_grid on well-formed input with num_chunks left to its default
SpecOrder == InitOrder /\ [][Next]_vars

InitChunks ==
    /\ validator = NotRun
    /\ input_path = "input.parquet"
    /\ input_file \in InputFrames
    /\ crs = ExpectedEpsg
    /\ num_chunks_arg = <<MaxChunks>>
    /\ pc = "start"
    /\ InitRun

\* merge_grid on well-formed input with num_chunks given as MaxChunks
SpecChunks == InitChunks /\ [][Next]_vars

\* ------------------------------------------------- the output step alone
\* the frames of gridcode code the output step may be handed: unit squares of
\* the first lattice row and rows whose geometry is None
StoredFrames(code) ==
    SeqsUpTo([component_id : {0}, gridcode : {code}, merged_count : {1},
              geometry : {{}} \cup {{c} : c \in (0 .. GridW - 1) \X {0}}], MaxStored)

\* merge_grid at the end of the loop over the gridcodes, with a stored frame
\* for each gridcode that has rows
InitWriter ==
    /\ validator = NotRun
    /\ input_path = "input.parquet"
    /\ input_file = <<>>
    /\ crs = ExpectedEpsg
    /\ num_chunks_arg = Absent
    /\ pc = "process"
    /\ gdf = <<>>
    /\ num_chunks = DefaultNumChunks
    /\ chunks = <<>>
    /\ code_i = Len(Codes) + 1
    /\ chunk_results = <<>>
    /\ \E first \in StoredFrames(Codes[1]), second \in StoredFrames(Codes[2]) :
          \E stored \in {[c \in CodeSet |-> IF c = Codes[1] THEN first ELSE second]} :
              /\ merged_df = stored
              /\ all_merged_dfs = SelectSeq(<<first, second>>, LAMBDA f : f # <<>>)
              /\ merge_stats = [c \in CodeSet |-> [original_features |-> Len(stored[c]),
                                                    merged_features |-> Len(stored[c])]]
    /\ output_file = NoFile
    /\ result = NoResult
    /\ error = NoError
    /\ degraded = {}

NextWriter ==
    \/ WriteOutput
    \/ Return

\* the output step of merge_grid on stored frames that may hold rows
\* without a geometry
SpecWriter == InitWriter /\ [][NextWriter]_vars

\* ------------------------------------------- input rows without geometry
\* row r put before position i of rows
InsertAt(rows, i, r) == SubSeq(rows, 1, i - 1) \o <<r>> \o SubSeq(rows, i, Len(rows))

\* the input files that hold one feature whose geometry is null or empty, at
\* any position among fewer than MaxFeatures features with a geometry
DefectFrames ==
    UNION {{InsertAt(f, i, [geometry |-> {}, gridcode |-> c]) :
                i \in 1 .. Len(f) + 1, c \in GridCodes} :
             f \in {g \in InputFrames : Len(g) < MaxFeatures}}

InitDefects ==
    /\ validator = NotRun
    /\ input_path = "input.parquet"
    /\ input_file \in DefectFrames
    /\ crs \in CrsValues
    /\ num_chunks_arg \in {Absent} \cup {<<k>> : k \in 1 .. MaxChunks}
    /\ pc = "start"
    /\ InitRun

\* merge_grid on an input file with a feature that has no geometry
SpecDefects == InitDefects /\ [][Next]_vars

\* ------------------------------------------------------- derived notions
\* the rows merge_grid writes for rows and partition count k when no stitch
\* pass raises: the per-gridcode loop with the try block taken every time
CleanCategory(chs, code) ==
    LET results == ChunkResults(chs, code, 1)
    IN  IF results = <<>> THEN <<>> ELSE FinalMerge(Flatten(results))

CleanMerge(rows, k) ==
    LET chs == create_spatial_chunks(rows, k)
    IN  Flatten([n \in DOMAIN Codes |->
                   IF CountCode(rows, Codes[n]) = 0 THEN <<>>
                   ELSE CleanCategory(chs, Codes[n])])

\* the features a later run reads from a file merge_grid wrote
ReadBack(rows) ==
    [n \in DOMAIN rows |-> [geometry |-> rows[n].geometry, gridcode |-> rows[n].gridcode]]

RowsOf(rows, code) == SelectSeq(rows, LAMBDA r : r.gridcode = code)

\* per gridcode, the geometries of the rows with their multiplicities
GeometryBag(rows, code) ==
    LET rs == RowsOf(rows, code)
    IN  [g \in {rs[n].geometry : n \in DOMAIN rs} |->
            Cardinality({n \in DOMAIN rs : rs[n].geometry = g})]

SameGeometries(r1, r2) ==
    \A c \in GridCodes : GeometryBag(r1, c) = GeometryBag(r2, c)

\* the boundaries of two polygons share at least one point
Touches(g1, g2) == BoundaryVertices(g1) \cap BoundaryVertices(g2) # {}

Done == pc = "done"
Output == output_file.rows

\* some output feature has absorbed both input features a and b
AbsorbedTogether(a, b) ==
    \E m \in DOMAIN Output :
        /\ Output[m].gridcode = gdf[a].gridcode
        /\ gdf[a].geometry \subseteq Output[m].geometry
        /\ gdf[b].geometry \subseteq Output[m].geometry

TouchingPairs ==
    {ab \in (DOMAIN gdf) \X (DOMAIN gdf) :
        /\ ab[1] # ab[2]
        /\ gdf[ab[1]].gridcode = gdf[ab[2]].gridcode
        /\ Touches(gdf[ab[1]].geometry, gdf[ab[2]].geometry)}

\* ----------------------------------------------------------------- claims
\* C1 (touch-closure): after merge_grid returns, every two input features of
\* the same category whose boundaries share a point are absorbed into the same
\* output feature, for every partition count.
TouchClosure ==
    Done => \A ab \in TouchingPairs : AbsorbedTogether(ab[1], ab[2])

\* C1, restricted to the gridcodes the engine processes (12 and 60): there the
\* touch-closure holds, also when a stitch pass fell back.
TouchClosureProcessed ==
    Done => \A ab \in TouchingPairs :
                gdf[ab[1]].gridcode \in CodeSet => AbsorbedTogether(ab[1], ab[2])

TouchClosureProcessedWitness ==
    /\ Done
    /\ Len(chunks) > 1
    /\ \E ab \in TouchingPairs : gdf[ab[1]].gridcode \in CodeSet

\* C2 (count conservation): after merge_grid returns, for every processed
\* category the merged_count values of its output features add up to the
\* number of input features of that category, for every partition count.
CountConservation ==
    Done => \A c \in CodeSet : SumCounts(RowsOf(Output, c)) = CountCode(gdf, c)

\* C3 (partition invariance): when no stitch pass fell back, the output for
\* partition count k has, per category, the same geometries as the output for
\* partition count 1.
PartitionInvariance ==
    (Done /\ degraded = {}) => SameGeometries(Output, CleanMerge(gdf, 1))

\* C3 witness: a clean run over several partitions in which the stitch pass
\* joined a partition result into a larger final feature.
PartitionInvarianceWitness ==
    /\ Done
    /\ degraded = {}
    /\ Len(chunks) > 1
    /\ \E c \in CodeSet : \E n \in DOMAIN merged_df[c] : \E m \in DOMAIN Output :
          /\ merged_df[c][n].geometry \subseteq Output[m].geometry
          /\ merged_df[c][n].geometry # Output[m].geometry

\* two unit squares that meet in exactly one corner point
CornerPair(g1, g2) ==
    \E c1 \in g1, c2 \in g2 :
        /\ g1 = {c1} /\ g2 = {c2}
        /\ (c1[1] - c2[1]) * (c1[1] - c2[1]) = 1
        /\ (c1[2] - c2[2]) * (c1[2] - c2[2]) = 1

\* C4 (Queen touch rule): when the input is two squares of one processed
\* category that meet only in a corner point, the output is one feature, the
\* union of both, with merged_count = 2, under every partition count.
CornerTouchMerged ==
    (/\ Done
     /\ Len(gdf) = 2
     /\ gdf[1].gridcode = gdf[2].gridcode
     /\ gdf[1].gridcode \in CodeSet
     /\ CornerPair(gdf[1].geometry, gdf[2].geometry)
     /\ degraded = {})
    => /\ Len(Output) = 1
       /\ Output[1].geometry = gdf[1].geometry \cup gdf[2].geometry
       /\ Output[1].merged_count = 2

\* C5 (idempotence), as stated: running the engine again on the features it
\* wrote gives the same number of features with the same geometries.
Idempotence ==
    Done => SameGeometries(CleanMerge(ReadBack(Output), num_chunks), Output)

\* C5, amended: the same, for a run none of whose stitch passes fell back.
IdempotenceClean ==
    (Done /\ degraded = {}) =>
        SameGeometries(CleanMerge(ReadBack(Output), num_chunks), Output)

\* C5 witness: a clean run over several partitions that merged features.
IdempotenceCleanWitness ==
    /\ Done
    /\ degraded = {}
    /\ Len(chunks) > 1
    /\ \E m \in DOMAIN Output : Cardinality(Output[m].geometry) > 1

StitchFailureFallback ==
    degraded # {} =>
        /\ pc \in {"process", "stitch", "written", "done"}
        /\ error = NoError
        /\ Done => \A c \in degraded :
              /\ RowsOf(Output, c) = Flatten(ChunkResults(chunks, c, 1))
              /\ result.metadata.merge_stats[c].merged_features =
                    Len(Flatten(ChunkResults(chunks, c, 1)))

StitchFailureFallbackWitness ==
    /\ Done
    /\ \E c \in degraded : Len(RowsOf(Output, c)) > 1

\* C8 (degraded stitch is observable): the statistics merge_grid returns hold
\* a flag stitch_degraded that is true exactly when a stitch pass fell back.
DegradedFlagReported ==
    Done => /\ "stitch_degraded" \in DOMAIN result.metadata
            /\ result.metadata.stitch_degraded = (degraded # {})

\* C9 (output file on success): every return of merge_grid holds input_path,
\* metadata and performance_metrics, and the file input_path names exists.
OutputFileOnReturn ==
    Done => /\ {"input_path", "metadata", "performance_metrics"} \subseteq DOMAIN result
            /\ result.input_path = "output_path"
            /\ output_file.exists

\* C9 witness: a return with features in the input and none in the output.
OutputFileOnReturnWitness ==
    Done /\ gdf # <<>> /\ Output = <<>>

\* C10 (empty category): a processed category without input features yields
\* no output feature and the counts 0 and 0, and the file is still written.
EmptyCategory ==
    Done => \A c \in CodeSet :
        RowsOf(gdf, c) = <<>> =>
            /\ RowsOf(Output, c) = <<>>
            /\ result.metadata.merge_stats[c].original_features = 0
            /\ result.metadata.merge_stats[c].merged_features = 0
            /\ output_file.exists
            /\ error = NoError

EmptyCategoryWitness ==
    /\ Done
    /\ \E c, d \in CodeSet : RowsOf(gdf, c) = <<>> /\ RowsOf(gdf, d) # <<>>

\* C11 (serialization failure leaves no partial file): when writing the output
\* raises, the run ends with that error and no output file of the run is left.
WriteFailureLeavesNoFile ==
    (pc = "aborted" /\ error = "WriteError") =>
        /\ result = NoResult
        /\ ~output_file.exists

\* the input features without a geometry
NullRows == {n \in DOMAIN gdf : gdf[n].geometry = {}}

\* input feature a is part of some output feature of its category
Absorbed(a) ==
    \E m \in DOMAIN Output :
        /\ Output[m].gridcode = gdf[a].gridcode
        /\ gdf[a].geometry \subseteq Output[m].geometry

\* C12 (per-feature defects are never fatal): a feature without a geometry
\* does not end the run; it is dropped and counted in the returned statistics,
\* and every other feature of a processed category is merged and written.
PerFeatureDefects ==
    /\ (pc = "aborted" /\ NullRows # {}) => crs \notin {NoCrs, ExpectedEpsg}
    /\ Done =>
          /\ \A m \in DOMAIN Output : Output[m].geometry # {}
          /\ \A a \in DOMAIN gdf \ NullRows : gdf[a].gridcode \in CodeSet => Absorbed(a)
          /\ "dropped_features" \in DOMAIN result.metadata
          /\ result.metadata.dropped_features = Cardinality(NullRows)

\* C12, without the count: a feature without a geometry does not end the run
\* and is left out of the output, and every other feature of a processed
\* category is merged and written.
PerFeatureDefectsNotFatal ==
    /\ (pc = "aborted" /\ NullRows # {}) => crs \notin {NoCrs, ExpectedEpsg}
    /\ Done =>
          /\ \A m \in DOMAIN Output : Output[m].geometry # {}
          /\ \A a \in DOMAIN gdf \ NullRows : gdf[a].gridcode \in CodeSet => Absorbed(a)

PerFeatureDefectsNotFatalWitness ==
    /\ Done
    /\ \E a \in NullRows : gdf[a].gridcode \in CodeSet
    /\ Output # <<>>

Area(g) == Cardinality(g)

RECURSIVE SumAreas(_, _)
SumAreas(rows, S) ==
    IF S = {} THEN 0
    ELSE LET n == CHOOSE x \in S : TRUE
         IN  Area(rows[n].geometry) + SumAreas(rows, S \ {n})

\* the input features output feature m is made of
Constituents(m) ==
    {a \in DOMAIN gdf : /\ gdf[a].gridcode = Output[m].gridcode
                        /\ gdf[a].geometry # {}
                        /\ gdf[a].geometry \subseteq Output[m].geometry}

\* C14 (area conservation): after merge_grid returns, the area of every output
\* feature is the sum of the areas of the input features it is made of, each
\* taken once, for every partition count.
AreaConservation ==
    Done => \A m \in DOMAIN Output :
                /\ Constituents(m) # {}
                /\ Area(Output[m].geometry) = SumAreas(gdf, Constituents(m))

\* C14 witness: an output feature over several partitions whose merged_count
\* exceeds the number of its input features, one of them having been a member
\* of several partitions.
AreaConservationWitness ==
    /\ Done
    /\ Len(chunks) > 1
    /\ \E m \in DOMAIN Output :
          /\ Cardinality(Constituents(m)) > 1
          /\ Output[m].merged_count > Cardinality(Constituents(m))

RECURSIVE SumMergedOver(_, _)
SumMergedOver(stats, S) ==
    IF S = {} THEN 0
    ELSE LET c == CHOOSE x \in S : TRUE
         IN  stats[c].merged_features + SumMergedOver(stats, S \ {c})

\* C15 (statistics agree with the output): on every return, for each category
\* of the statistics the merged count is the number of features of the
\* category in the output file and the original count is the number of its
\* input features, and merged_features_count is the sum of the merged counts.
StatisticsAgree ==
    Done =>
        LET stats == result.metadata.merge_stats
        IN  /\ \A c \in DOMAIN stats :
                  /\ stats[c].merged_features = Len(RowsOf(Output, c))
                  /\ stats[c].original_features = Len(RowsOf(gdf, c))
            /\ result.metadata.merged_features_count = SumMergedOver(stats, DOMAIN stats)

\* C15 witness: a return with output features of both processed categories,
\* one of which was merged from several input features.
StatisticsAgreeWitness ==
    /\ Done
    /\ \A c \in CodeSet : result.metadata.merge_stats[c].merged_features > 0
    /\ \E c \in CodeSet : result.metadata.merge_stats[c].original_features >
                               result.metadata.merge_stats[c].merged_features

\* C16 (the category set is not hard-coded): after merge_grid returns, every
\* input feature, whatever its category code, is part of an output feature of
\* its category.
AnyCategoryMerged ==
    Done => \A a \in DOMAIN gdf : Absorbed(a)

\* C17 (missing input is fatal): a run whose data_item has no input_path, or
\* an empty one, ends in a ValueError with nothing read, counted, partitioned
\* or merged and no output file created.
MissingInputFatal ==
    (pc # "start" /\ input_path \in {NoPath, ""}) =>
        /\ pc = "aborted"
        /\ error = "ValueError"
        /\ gdf = <<>>
        /\ num_chunks = 0
        /\ merge_stats = InitialStats
        /\ chunks = <<>>
        /\ chunk_results = <<>>
        /\ all_merged_dfs = <<>>
        /\ output_file = NoFile
        /\ result = NoResult

\* C17 witness: a run ended by an empty input_path.
MissingInputFatalWitness ==
    pc = "aborted" /\ input_path = "" /\ error = "ValueError"

\* the output features of category c that hold input feature a
Holders(a, c) ==
    {m \in DOMAIN Output : /\ Output[m].gridcode = c
                           /\ gdf[a].geometry \subseteq Output[m].geometry}

\* the input requirement a call of the validator does not meet, if any
UnmetRequirement ==
    LET p == InputPathOf(validator.data)
    IN  IF ~Truthy(p) THEN "no input path"
        ELSE IF ~EndsWithParquet(p) THEN "not a .parquet path"
        ELSE IF ~validator.file.has_geometry THEN "no geometry column"
        ELSE IF validator.file.features = <<>> THEN "no features"
        ELSE "none"

\* C18 (validator contract): a call that ends because an input requirement is
\* not met ends in a ValueError; a call that returns leaves the file named by
\* validated_data_path in place; and a call that fails after the temporary
\* output file was created leaves no such file.
ValidatorContract ==
    /\ (validator.pc = "failed" /\ validator.failed_at \in {"input", "verify", "stats"}) =>
          (UnmetRequirement # "none" /\ validator.error = "ValueError")
    /\ validator.pc = "returned" =>
          (validator.output_exists /\ validator.result.validated_data_path = "output_path")
    /\ (validator.pc = "failed" /\ validator.failed_at # "input") =>
          ~validator.output_exists

\* C18, the part that holds: a call that returns leaves its output file in
\* place, a call that fails inside the try block leaves none, and a missing
\* or non-.parquet input path ends the call in a ValueError before the
\* temporary file is created.
ValidatorCleansUpInTry ==
    /\ validator.pc = "returned" => validator.output_exists
    /\ (validator.pc = "failed" /\ validator.failed_at \notin {"input", "connect"}) =>
          (~validator.output_exists /\ validator.error = "RuntimeError")
    /\ (validator.pc = "failed" /\ validator.failed_at = "input") =>
          (~validator.output_exists /\ validator.error = "ValueError")

\* C19 (duplicates are collapsed by the stitcher): after a run, for every
\* category whose stitch pass ran without falling back, every input feature of
\* the category is part of exactly one output feature, and no two output
\* features of the category touch or share an input feature.
DuplicatesCollapsed ==
    Done => \A c \in CodeSet \ degraded :
        /\ \A a \in DOMAIN gdf : gdf[a].gridcode = c => Cardinality(Holders(a, c)) = 1
        /\ \A m1, m2 \in DOMAIN Output :
              (m1 # m2 /\ Output[m1].gridcode = c /\ Output[m2].gridcode = c) =>
                  /\ ~Touches(Output[m1].geometry, Output[m2].geometry)
                  /\ Output[m1].geometry \cap Output[m2].geometry = {}

\* C19 witness: a clean stitch over partition results of which two hold the
\* same input feature, ending in fewer output features.
DuplicatesCollapsedWitness ==
    /\ Done
    /\ \E c \in CodeSet \ degraded :
          /\ Len(RowsOf(Output, c)) < Len(merged_df[c])
          /\ \E a \in DOMAIN gdf, n1, n2 \in DOMAIN merged_df[c] :
                /\ n1 # n2
                /\ gdf[a].gridcode = c
                /\ gdf[a].geometry \subseteq merged_df[c][n1].geometry
                /\ gdf[a].geometry \subseteq merged_df[c][n2].geometry

\* the grid positions (a, b) of the s by s grid over the total bounds whose
\* closed box shares a point with polygon g; box (a, b) spans
\* minx + a * w / s .. minx + (a + 1) * w / s, and likewise in y
BoxesMeeting(g, bnd, s) ==
    {ab \in (0 .. s - 1) \X (0 .. s - 1) :
        \E c \in g :
            /\ (c[1] - bnd.minx) * s <= (ab[1] + 1) * (bnd.maxx - bnd.minx)
            /\ ab[1] * (bnd.maxx - bnd.minx) <= (c[1] + 1 - bnd.minx) * s
            /\ (c[2] - bnd.miny) * s <= (ab[2] + 1) * (bnd.maxy - bnd.miny)
            /\ ab[2] * (bnd.maxy - bnd.miny) <= (c[2] + 1 - bnd.miny) * s}

\* the partitions that hold input feature n
ChunksHolding(n) ==
    {i \in DOMAIN chunks : \E j \in DOMAIN chunks[i] : chunks[i][j] = gdf[n]}

\* create_spatial_chunks has just returned the partitions of a non-empty input
Partitioned == pc = "process" /\ code_i = 1 /\ gdf # <<>>

OccupiedBoxes(s) ==
    UNION {BoxesMeeting(gdf[n].geometry, TotalBounds(gdf), s) : n \in DOMAIN gdf}

\* C21 (partition grid shape): for partition count k the partitions returned
\* are those of the boxes, of an s by s grid with s = ceil(sqrt(k)), that hold
\* a feature: at most s * s, none of them empty; and the number of partitions
\* merge_grid reports is the number returned.
GridShape ==
    /\ Partitioned =>
          \E s \in 1 .. num_chunks :
              /\ s * s >= num_chunks
              /\ (s - 1) * (s - 1) < num_chunks
              /\ Len(chunks) <= s * s
              /\ Len(chunks) = Cardinality(OccupiedBoxes(s))
              /\ \A i \in DOMAIN chunks : chunks[i] # <<>>
    /\ Done => result.performance_metrics.processing.num_chunks = Len(chunks)

\* C21 witness: a return after a partition in which some box of the grid held
\* no feature and was left out.
GridShapeWitness ==
    /\ Done
    /\ Len(chunks) > 1
    /\ Len(chunks) < ChunksPerSide(num_chunks) * ChunksPerSide(num_chunks)
    /\ result.performance_metrics.processing.num_chunks = Len(chunks)

RECURSIVE SumCountsOver(_, _)
SumCountsOver(rows, S) ==
    IF S = {} THEN 0
    ELSE LET n == CHOOSE x \in S : TRUE
         IN  rows[n].merged_count + SumCountsOver(rows, S \ {n})

\* the per-partition results of category c that output feature m is made of
PartsOf(m, c) ==
    {n \in DOMAIN merged_df[c] : merged_df[c][n].geometry \subseteq Output[m].geometry}

\* C23 (weighted re-merge): after a run, the merged_count of every
\* per-partition result is the number of input features it is made of, and for
\* a category whose stitch pass did not fall back the merged_count of every
\* output feature is the sum of the merged_count values of the per-partition
\* results it is made of.
WeightedRemerge ==
    Done => \A c \in CodeSet :
        /\ \A n \in DOMAIN merged_df[c] :
              merged_df[c][n].merged_count =
                 Cardinality({a \in DOMAIN gdf :
                                /\ gdf[a].gridcode = c
                                /\ gdf[a].geometry \subseteq merged_df[c][n].geometry})
        /\ c \notin degraded =>
              \A m \in DOMAIN Output :
                  Output[m].gridcode = c =>
                      Output[m].merged_count = SumCountsOver(merged_df[c], PartsOf(m, c))

\* C23 witness: an output feature stitched from several per-partition results,
\* one of them itself merged from several input features.
WeightedRemergeWitness ==
    /\ Done
    /\ \E c \in CodeSet \ degraded : \E m \in DOMAIN Output :
          /\ Output[m].gridcode = c
          /\ Cardinality(PartsOf(m, c)) > 1
          /\ \E n \in PartsOf(m, c) : merged_df[c][n].merged_count > 1

\* the partitions that hold a feature of the category being processed, in order
HoldingChunks ==
    SelectSeq(chunks, LAMBDA ch : \E j \in DOMAIN ch : ch[j].gridcode = Code)

\* row j of partition ch touches no other row of its category in ch
Isolated(ch, j) ==
    \A j2 \in DOMAIN ch :
        (j2 # j /\ ch[j2].gridcode = ch[j].gridcode) =>
            ~Touches(ch[j].geometry, ch[j2].geometry)

\* C24 (singleton components survive): when the partitions of a category are
\* processed, every partition with a feature of the category has a result,
\* and a feature that touches no other feature of its category in its
\* partition is a result of that partition by itself, with merged_count 1 and
\* its own geometry.
SingletonsSurvive ==
    pc = "stitch" =>
        /\ Len(chunk_results) = Len(HoldingChunks)
        /\ \A i \in DOMAIN HoldingChunks : \A j \in DOMAIN HoldingChunks[i] :
              (HoldingChunks[i][j].gridcode = Code /\ Isolated(HoldingChunks[i], j)) =>
                  \E l \in DOMAIN chunk_results[i] :
                      /\ chunk_results[i][l].geometry = HoldingChunks[i][j].geometry
                      /\ chunk_results[i][l].merged_count = 1
                      /\ chunk_results[i][l].gridcode = Code

\* C24 witness: a partition whose results are an isolated feature and a
\* feature merged from several.
SingletonsSurviveWitness ==
    /\ pc = "stitch"
    /\ \E i \in DOMAIN chunk_results : \E l1, l2 \in DOMAIN chunk_results[i] :
          /\ chunk_results[i][l1].merged_count = 1
          /\ chunk_results[i][l2].merged_count > 1

\* every input feature that row r covers, wholly or in part, is of r's category
PureCategory(r) ==
    \A a \in DOMAIN gdf :
        gdf[a].geometry \cap r.geometry # {} => gdf[a].gridcode = r.gridcode

\* C25 (categories never mix): after a run, every per-partition result and
\* every output feature covers input features of its own category only, and
\* the per-partition results gathered for a category are of that category.
CategoriesNeverMix ==
    Done =>
        /\ \A c \in CodeSet : \A n \in DOMAIN merged_df[c] :
              merged_df[c][n].gridcode = c /\ PureCategory(merged_df[c][n])
        /\ \A m \in DOMAIN Output : PureCategory(Output[m])

\* C25 witness: a return where two touching input features of different
\* processed categories are each part of an output feature.
CategoriesNeverMixWitness ==
    /\ Done
    /\ \E a, b \in DOMAIN gdf :
          /\ gdf[a].gridcode \in CodeSet
          /\ gdf[b].gridcode \in CodeSet
          /\ gdf[a].gridcode # gdf[b].gridcode
          /\ Touches(gdf[a].geometry, gdf[b].geometry)
          /\ Absorbed(a)
          /\ Absorbed(b)

\* the features of rows without their order and component ids
FeatureSet(rows) ==
    {[geometry |-> rows[n].geometry, gridcode |-> rows[n].gridcode,
      merged_count |-> rows[n].merged_count] : n \in DOMAIN rows}

\* the per-partition results taken in the order p of the partitions
Reordered(results, p) == [i \in DOMAIN results |-> results[p[i]]]

\* the sequences that hold the per-partition results in some order
Orders(results) == {Reordered(results, p) : p \in Permutations(DOMAIN results)}

\* C26 (partition independence): when the partitions of a category are
\* processed, the result of every partition is that of process_chunk on the
\* partition's own rows of the category alone, and the stitch pass gives the
\* same features whatever the order in which the results were gathered.
PartitionIndependence ==
    pc = "stitch" =>
        /\ \A i \in DOMAIN HoldingChunks :
              chunk_results[i] = process_chunk(RowsOf(HoldingChunks[i], Code), Code)
        /\ \A inorder \in {FinalMerge(Flatten(chunk_results))} :
              \A results \in Orders(chunk_results) :
                  \A other \in {FinalMerge(Flatten(results))} :
                      /\ FeatureSet(other) = FeatureSet(inorder)
                      /\ Len(other) = Len(inorder)

\* C26 witness: three or more partitions with results of different
\* merged_count that the stitch pass joins.
PartitionIndependenceWitness ==
    /\ pc = "stitch"
    /\ Len(chunk_results) > 2
    /\ \E i, j \in DOMAIN chunk_results :
          chunk_results[i][1].merged_count # chunk_results[j][1].merged_count
    /\ Len(FinalMerge(Flatten(chunk_results))) < Len(Flatten(chunk_results))

\* the gridcodes whose per-partition results went through the stitch pass
Stitched == {c \in CodeSet : merged_df[c] # <<>>}

\* C27 (stage ordering): the stitch pass of a category starts with the results
\* of every partition that holds the category gathered and with no output
\* file yet; the output file exists only once the loop over the categories
\* is over, and when it is written every category has the results of all
\* its partitions gathered and its stitch pass, or the fallback, finished.
StageOrdering ==
    /\ pc = "stitch" =>
          /\ Len(chunk_results) = Len(HoldingChunks)
          /\ ~output_file.exists
          /\ Len(all_merged_dfs) < code_i
    /\ output_file.exists =>
          /\ code_i > Len(Codes)
          /\ pc \in {"written", "done"}
          /\ chunk_results = <<>>
          /\ Len(all_merged_dfs) = Cardinality(Stitched)
    /\ pc = "written" =>
          \A c \in CodeSet : merged_df[c] = Flatten(ChunkResults(chunks, c, 1))

\* C27 witness: the file is written after both categories went through the
\* stitch pass, one of them through the fallback, over several partitions.
StageOrderingWitness ==
    /\ pc = "written"
    /\ output_file.exists
    /\ Stitched = CodeSet
    /\ degraded # {}
    /\ degraded # CodeSet
    /\ Len(chunks) > 1

\* the component ids of rows go up from one row to the next
AscendingIds(rows) ==
    \A m1, m2 \in DOMAIN rows : m1 < m2 => rows[m1].component_id < rows[m2].component_id

\* the rows a run stores for a gridcode, from the partitions chs and from
\* whether the stitch pass of the gridcode failed
StoredRows(rows, chs, code, failed) ==
    IF CountCode(rows, code) = 0 THEN <<>>
    ELSE LET results == ChunkResults(chs, code, 1)
         IN  IF results = <<>> THEN <<>>
             ELSE IF failed THEN StitchFallback(Flatten(results))
             ELSE FinalMerge(Flatten(results))

OutputValidity ==
    /\ pc # "aborted"
    /\ error = NoError
    /\ pc \in {"written", "done"} =>
          /\ output_file.exists
          /\ \A m \in DOMAIN Output : Output[m].geometry # {}
          /\ Output = SelectSeq(Flatten(all_merged_dfs), LAMBDA r : r.geometry # {})

\* C29 witness: a run returns after it wrote a file that holds features and
\* leaves out a stored row without a geometry.
OutputValidityWitness ==
    /\ Done
    /\ output_file.exists
    /\ Output # <<>>
    /\ \E f \in DOMAIN all_merged_dfs : \E n \in DOMAIN all_merged_dfs[f] :
          all_merged_dfs[f][n].geometry = {}

\* C30 (category isolation of stitch failures): after a run, whatever stitch
\* passes failed, a category whose own stitch pass did not fail has in the
\* output exactly the features, and in the statistics kept and returned
\* exactly the counts, of a run in which no stitch pass fails.
StitchIsolation ==
    Done =>
        \A c \in CodeSet \ degraded :
            \A clean \in {StoredRows(gdf, chunks, c, FALSE)} :
                /\ RowsOf(Output, c) = clean
                /\ merge_stats[c] = [original_features |-> CountCode(gdf, c),
                                     merged_features |-> Len(clean)]
                /\ result.metadata.merge_stats[c] = merge_stats[c]

\* C30 witness: a run returns in which the stitch pass of one category
\* failed and left more features than it would have merged them into, and
\* the stitch pass of the other category merged results across partitions.
StitchIsolationWitness ==
    /\ Done
    /\ \E d \in degraded : Len(RowsOf(Output, d)) > Len(FinalMerge(merged_df[d]))
    /\ \E c \in CodeSet \ degraded :
          /\ RowsOf(Output, c) # <<>>
          /\ Len(merged_df[c]) > Len(RowsOf(Output, c))

====
